---- MODULE Spec2Model ----
(***************************************************************************)
(* cfssljson (cmd/cfssljson/cfssljson.go): one run of main/writeOutput.    *)
(*                                                                         *)
(* Go strings are byte sequences: contents and file names are sequences of *)
(* byte values (0..255).  A JSON value is a record [t, v]; a JSON object   *)
(* and a Go map are functions whose DOMAIN is the set of keys present.     *)
(* The run is a fixed sequence of steps, one per block of writeOutput.     *)
(***************************************************************************)
EXTENDS Integers, Sequences, FiniteSets, TLC

\* Largest number of keys of the result mapping (the payload) of an input.
MaxKeys == 2

\* ---------------------------------------------------------------- bytes
\* ASCII text of the file-name suffixes and of the default base name.
SufPem         == <<46, 112, 101, 109>>
SufKeyPem      == <<45, 107, 101, 121, 46, 112, 101, 109>>
SufKeyEnc      == <<45, 107, 101, 121, 46, 101, 110, 99>>
SufCsr         == <<46, 99, 115, 114>>
SufBundlePem   == <<45, 98, 117, 110, 100, 108, 101, 46, 112, 101, 109>>
SufRootPem     == <<45, 114, 111, 111, 116, 46, 112, 101, 109>>
SufResponseDer == <<45, 114, 101, 115, 112, 111, 110, 115, 101, 46, 100, 101, 114>>
DefaultBaseName == <<99, 101, 114, 116>>
Newline == <<10>>

Perm0664 == 436
Perm0600 == 384
Perm0644 == 420

\* ---------------------------------------------------------------- base64
\* base64.StdEncoding: alphabet A-Z a-z 0-9 + /, padding '='.
PadChar == 61

EncodeChar(i) ==
    IF i < 26 THEN 65 + i
    ELSE IF i < 52 THEN 97 + (i - 26)
    ELSE IF i < 62 THEN 48 + (i - 52)
    ELSE IF i = 62 THEN 43 ELSE 47

\* value of an alphabet character, -1 for any other byte
DecodeChar(c) ==
    IF c >= 65 /\ c <= 90 THEN c - 65
    ELSE IF c >= 97 /\ c <= 122 THEN c - 97 + 26
    ELSE IF c >= 48 /\ c <= 57 THEN c - 48 + 52
    ELSE IF c = 43 THEN 62
    ELSE IF c = 47 THEN 63 ELSE -1

RECURSIVE EncodeToString(_)
EncodeToString(b) ==
    IF Len(b) = 0 THEN <<>>
    ELSE IF Len(b) = 1 THEN
        <<EncodeChar(b[1] \div 4), EncodeChar((b[1] % 4) * 16), PadChar, PadChar>>
    ELSE IF Len(b) = 2 THEN
        <<EncodeChar(b[1] \div 4),
          EncodeChar((b[1] % 4) * 16 + b[2] \div 16),
          EncodeChar((b[2] % 16) * 4), PadChar>>
    ELSE
        <<EncodeChar(b[1] \div 4),
          EncodeChar((b[1] % 4) * 16 + b[2] \div 16),
          EncodeChar((b[2] % 16) * 4 + b[3] \div 64),
          EncodeChar(b[3] % 64)>> \o EncodeToString(SubSeq(b, 4, Len(b)))

\* '\r' and '\n' are skipped by the decoder
RECURSIVE StripNewlines(_)
StripNewlines(s) ==
    IF Len(s) = 0 THEN <<>>
    ELSE IF s[1] = 10 \/ s[1] = 13 THEN StripNewlines(Tail(s))
    ELSE <<s[1]>> \o StripNewlines(Tail(s))

\* one quantum of four characters; last = it is the final quantum
DecodeQuantum(q, last) ==
    LET v1 == DecodeChar(q[1])
        v2 == DecodeChar(q[2])
        v3 == DecodeChar(q[3])
        v4 == DecodeChar(q[4])
    IN  IF v1 < 0 \/ v2 < 0 THEN [ok |-> FALSE, bytes |-> <<>>]
        ELSE IF q[3] = PadChar THEN
            IF last /\ q[4] = PadChar
            THEN [ok |-> TRUE, bytes |-> <<v1 * 4 + v2 \div 16>>]
            ELSE [ok |-> FALSE, bytes |-> <<>>]
        ELSE IF v3 < 0 THEN [ok |-> FALSE, bytes |-> <<>>]
        ELSE IF q[4] = PadChar THEN
            IF last
            THEN [ok |-> TRUE,
                  bytes |-> <<v1 * 4 + v2 \div 16, (v2 % 16) * 16 + v3 \div 4>>]
            ELSE [ok |-> FALSE, bytes |-> <<>>]
        ELSE IF v4 < 0 THEN [ok |-> FALSE, bytes |-> <<>>]
        ELSE [ok |-> TRUE,
              bytes |-> <<v1 * 4 + v2 \div 16,
                          (v2 % 16) * 16 + v3 \div 4,
                          (v3 % 4) * 64 + v4>>]

RECURSIVE DecodeQuanta(_)
DecodeQuanta(s) ==
    IF Len(s) = 0 THEN [ok |-> TRUE, bytes |-> <<>>]
    ELSE IF Len(s) < 4 THEN [ok |-> FALSE, bytes |-> <<>>]
    ELSE LET q == DecodeQuantum(SubSeq(s, 1, 4), Len(s) = 4)
             r == DecodeQuanta(SubSeq(s, 5, Len(s)))
         IN  IF q.ok /\ r.ok
             THEN [ok |-> TRUE, bytes |-> q.bytes \o r.bytes]
             ELSE [ok |-> FALSE, bytes |-> <<>>]

\* mutant: a decoder that reports no error
DecodeStringLenient(s) == [ok |-> TRUE, bytes |-> DecodeQuanta(StripNewlines(s)).bytes]

\* base64.StdEncoding.DecodeString: [ok, bytes]; ok = FALSE is the error
DecodeString(s) == DecodeQuanta(StripNewlines(s))

\* ---------------------------------------------------------------- JSON
Str(s)  == [t |-> "str",  v |-> s]
Obj(m)  == [t |-> "obj",  v |-> m]
Bool(b) == [t |-> "bool", v |-> b]
Num     == [t |-> "num",  v |-> <<>>]
Null    == [t |-> "null", v |-> <<>>]

EmptyMap == <<>>

\* m[k] of a Go map with the comma-ok idiom: Has is ok, Get the value
Has(m, k) == k \in DOMAIN m
Get(m, k) == m[k]
\* x.(string) and x.(map[string]interface{}) with comma-ok
IsString(x) == x.t = "str"
IsMap(x)    == x.t = "obj"

\* ---------------------------------------------------------------- inputs
\* string values of the text fields: "", "A" (not base64), "MAM=" (base64 of 30 03)
TextStrings == {<<>>, <<65>>, <<77, 65, 77, 61>>}
TextVals    == {Str(s) : s \in TextStrings} \cup {Num}

ChainVals == {Str(<<66>>), Num}
RootVals  == {Str(<<82>>), Num}
BundleMaps ==
    {EmptyMap}
      \cup {("bundle" :> c) : c \in ChainVals}
      \cup {("root" :> r) : r \in RootVals}
      \cup {("bundle" :> c) @@ ("root" :> r) : c \in ChainVals, r \in RootVals}
ResultVals ==
    {Num, Obj(EmptyMap), Obj("bundle" :> Num)}
      \cup {Obj("bundle" :> Obj(b)) : b \in BundleMaps}

TextKeys == {"cert", "certificate", "key", "private_key", "encrypted_key",
             "csr", "certificate_request", "ocspResponse"}
Keys == TextKeys \cup {"result"}

PayloadsOver(S) ==
    IF "result" \in S
    THEN {t @@ ("result" :> r) : t \in [S \ {"result"} -> TextVals], r \in ResultVals}
    ELSE [S -> TextVals]
Payloads ==
    UNION {PayloadsOver(S) : S \in {T \in SUBSET Keys : Cardinality(T) <= MaxKeys}}

\* the input source: unreadable, not JSON, or a JSON object
Unreadable == [kind |-> "unreadable", top |-> EmptyMap]
Invalid    == [kind |-> "invalid",    top |-> EmptyMap]
Object(m)  == [kind |-> "object",     top |-> m]

Envelopes ==
    {Object("result" :> Obj(m)) : m \in Payloads}
      \cup {Object(("success" :> Bool(b)) @@ ("result" :> Obj(m))) :
                b \in BOOLEAN, m \in Payloads}
      \cup {Object("success" :> Bool(TRUE)),
            Object(("success" :> Bool(TRUE)) @@ ("result" :> Null)),
            Object(("success" :> Bool(TRUE)) @@ ("result" :> Num)),
            Object(("success" :> Num) @@ ("result" :> Obj(EmptyMap))),
            Object(("success" :> Null) @@ ("result" :> Obj(EmptyMap)))}
\* a bare mapping; the success key is one more key of it
BareObjects ==
    {Object(m) : m \in Payloads}
      \cup {Object(("success" :> Bool(b)) @@ ("result" :> r)) :
                b \in BOOLEAN, r \in ResultVals}
\* with -bare the input is read as a mapping, without it as an envelope (a
\* mapping without success and result keys is an envelope too)
BareDocuments     == {Unreadable, Invalid} \cup BareObjects
EnvelopeDocuments == BareDocuments \cup Envelopes

\* positional arguments: none, or one base name ("m")
Positionals == {<<>>, << <<109>> >>}
Flags == [bare : BOOLEAN, stdout : BOOLEAN, json : BOOLEAN, args : Positionals]

\* ---------------------------------------------------------------- state
VARIABLES
    flags,         \* the parsed command line (never changes)
    fileData,      \* what the input source holds
    pc,            \* the step the run is at (where it ended, once it has)
    baseName,      \* main: baseName
    stdoutOutput,  \* main: *stdoutOutput
    input,         \* writeOutput: input
    outs,          \* writeOutput: outs
    next,          \* index of the next element of outs in the sink loop
    files,         \* the files ioutil.WriteFile has written, in order
    stdout,        \* the writes to standard output, in order
    exitCode       \* -1 while running; 0, 1 (os.Exit(1)) or 2 (panic)

vars == <<flags, fileData, pc, baseName, stdoutOutput, input, outs, next,
          files, stdout, exitCode>>

Running == -1

Init ==
    /\ flags \in Flags
    /\ fileData \in (IF flags.bare THEN BareDocuments ELSE EnvelopeDocuments)
    /\ pc = "main"
    /\ baseName = <<>>
    /\ stdoutOutput = flags.stdout
    /\ input = EmptyMap
    /\ outs = <<>>
    /\ next = 1
    /\ files = <<>>
    /\ stdout = <<>>
    /\ exitCode = Running

\* os.Exit(code), a panic (code 2), or main returning (code 0): the run ends
\* where it is
Exit(code) == pc' = pc /\ exitCode' = code

outputFile(name, contents, binary, perms) ==
    [Filename |-> name, Contents |-> contents, IsBinary |-> binary, Perms |-> perms]

\* ---------------------------------------------------------------- main
Main ==
    /\ pc = "main"
    /\ exitCode = Running
    /\ baseName' = IF Len(flags.args) = 0 THEN DefaultBaseName ELSE flags.args[1]
    /\ IF fileData.kind = "unreadable"
       THEN Exit(1) /\ UNCHANGED stdoutOutput
       ELSE /\ stdoutOutput' = (IF flags.json THEN TRUE ELSE stdoutOutput)
            /\ pc' = "unwrap"
            /\ UNCHANGED exitCode
    /\ UNCHANGED <<flags, fileData, input, outs, next, files, stdout>>

\* ---------------------------------------------------------------- unwrap
\* json.Unmarshal(fileData, &response): error unless success is a bool (or
\* null) and result an object (or null)
ResponseOk(doc) ==
    /\ doc.kind = "object"
    /\ Has(doc.top, "success") => Get(doc.top, "success").t \in {"bool", "null"}
    /\ Has(doc.top, "result") => Get(doc.top, "result").t \in {"obj", "null"}
\* mutant: the success flag is not looked at
ResponseSuccessIgnored(doc) == TRUE
ResponseSuccess(doc) ==
    /\ Has(doc.top, "success")
    /\ Get(doc.top, "success").t = "bool"
    /\ Get(doc.top, "success").v
ResponseResult(doc) ==
    IF Has(doc.top, "result") /\ IsMap(Get(doc.top, "result"))
    THEN Get(doc.top, "result").v
    ELSE EmptyMap

Unwrap ==
    /\ pc = "unwrap"
    /\ exitCode = Running
    /\ IF flags.bare
       THEN IF fileData.kind = "object"
            THEN input' = fileData.top /\ pc' = "cert" /\ UNCHANGED exitCode
            ELSE Exit(1) /\ UNCHANGED input
       ELSE IF ~ResponseOk(fileData) THEN Exit(1) /\ UNCHANGED input
            ELSE IF ~ResponseSuccess(fileData) THEN Exit(1) /\ UNCHANGED input
            ELSE input' = ResponseResult(fileData) /\ pc' = "cert" /\ UNCHANGED exitCode
    /\ UNCHANGED <<flags, fileData, baseName, stdoutOutput, outs, next, files, stdout>>

\* ---------------------------------------------------------------- extraction
\* the artifacts, one constructor per append(outs, outputFile{...})
\* mutants: a certificate written with mode 0644, a key written with mode 0644
CertFileMode0644(base, cert) == outputFile(base \o SufPem, cert, FALSE, Perm0644)
KeyFileMode0644(base, key)   == outputFile(base \o SufKeyPem, key, FALSE, Perm0644)
CertFile(base, cert)   == outputFile(base \o SufPem, cert, FALSE, Perm0664)
KeyFile(base, key)     == outputFile(base \o SufKeyPem, key, FALSE, Perm0600)
EncKeyFile(base, encKey) == outputFile(base \o SufKeyEnc, encKey, TRUE, Perm0600)
CsrFile(base, csr)     == outputFile(base \o SufCsr, csr, FALSE, Perm0644)
BundleFile(base, certificateBundle, rootCertificate) ==
    outputFile(base \o SufBundlePem, certificateBundle \o Newline \o rootCertificate,
               FALSE, Perm0644)
RootFile(base, rootCertificate) ==
    outputFile(base \o SufRootPem, rootCertificate, FALSE, Perm0644)
ResponseFile(base, resp) == outputFile(base \o SufResponseDer, resp, TRUE, Perm0644)

\* mutant: the alias is looked up before the primary name
StringFieldAliasFirst(m, primary, alias) ==
    IF Has(m, alias)
    THEN IF IsString(Get(m, alias))
         THEN [panics |-> FALSE, s |-> Get(m, alias).v]
         ELSE [panics |-> TRUE, s |-> <<>>]
    ELSE IF Has(m, primary)
    THEN IF IsString(Get(m, primary))
         THEN [panics |-> FALSE, s |-> Get(m, primary).v]
         ELSE [panics |-> TRUE, s |-> <<>>]
    ELSE [panics |-> FALSE, s |-> <<>>]
\* mutant: a value that is not a string is skipped (comma-ok type assertion)
StringFieldSkipsNonString(m, primary, alias) ==
    IF Has(m, primary)
    THEN [panics |-> FALSE,
          s |-> IF IsString(Get(m, primary)) THEN Get(m, primary).v ELSE <<>>]
    ELSE IF Has(m, alias)
    THEN [panics |-> FALSE,
          s |-> IF IsString(Get(m, alias)) THEN Get(m, alias).v ELSE <<>>]
    ELSE [panics |-> FALSE, s |-> <<>>]

\* if contents, ok := input[primary]; ok { x = contents.(string) }
\* else if contents, ok = input[alias]; ok { x = contents.(string) }
\* panics: the type assertion fails; s: the value of x afterwards ("" if untouched)
StringField(m, primary, alias) ==
    IF Has(m, primary)
    THEN IF IsString(Get(m, primary))
         THEN [panics |-> FALSE, s |-> Get(m, primary).v]
         ELSE [panics |-> TRUE, s |-> <<>>]
    ELSE IF Has(m, alias)
    THEN IF IsString(Get(m, alias))
         THEN [panics |-> FALSE, s |-> Get(m, alias).v]
         ELSE [panics |-> TRUE, s |-> <<>>]
    ELSE [panics |-> FALSE, s |-> <<>>]

\* if x != "" { outs = append(outs, file) }
AppendNonEmpty(o, s, file) == IF s # <<>> THEN Append(o, file) ELSE o

Cert ==
    /\ pc = "cert"
    /\ exitCode = Running
    /\ LET f == StringField(input, "cert", "certificate")
       IN  IF f.panics THEN Exit(2) /\ UNCHANGED outs
           ELSE /\ outs' = AppendNonEmpty(outs, f.s, CertFile(baseName, f.s))
                /\ pc' = "key"
                /\ UNCHANGED exitCode
    /\ UNCHANGED <<flags, fileData, baseName, stdoutOutput, input, next, files, stdout>>

Key ==
    /\ pc = "key"
    /\ exitCode = Running
    /\ LET f == StringField(input, "key", "private_key")
       IN  IF f.panics THEN Exit(2) /\ UNCHANGED outs
           ELSE /\ outs' = AppendNonEmpty(outs, f.s, KeyFile(baseName, f.s))
                /\ pc' = "enckey"
                /\ UNCHANGED exitCode
    /\ UNCHANGED <<flags, fileData, baseName, stdoutOutput, input, next, files, stdout>>

\* mutant: the encrypted key is emitted only when it is not empty
EncKeyNonEmptyOnly ==
    /\ pc = "enckey"
    /\ exitCode = Running
    /\ IF Has(input, "encrypted_key")
       THEN IF IsString(Get(input, "encrypted_key"))
            THEN /\ outs' = AppendNonEmpty(outs, Get(input, "encrypted_key").v,
                               EncKeyFile(baseName, Get(input, "encrypted_key").v))
                 /\ pc' = "csr"
                 /\ UNCHANGED exitCode
            ELSE Exit(2) /\ UNCHANGED outs
       ELSE pc' = "csr" /\ UNCHANGED <<outs, exitCode>>
    /\ UNCHANGED <<flags, fileData, baseName, stdoutOutput, input, next, files, stdout>>

EncKey ==
    /\ pc = "enckey"
    /\ exitCode = Running
    /\ IF Has(input, "encrypted_key")
       THEN IF IsString(Get(input, "encrypted_key"))
            THEN /\ outs' = Append(outs,
                               EncKeyFile(baseName, Get(input, "encrypted_key").v))
                 /\ pc' = "csr"
                 /\ UNCHANGED exitCode
            ELSE Exit(2) /\ UNCHANGED outs
       ELSE pc' = "csr" /\ UNCHANGED <<outs, exitCode>>
    /\ UNCHANGED <<flags, fileData, baseName, stdoutOutput, input, next, files, stdout>>

Csr ==
    /\ pc = "csr"
    /\ exitCode = Running
    /\ LET f == StringField(input, "csr", "certificate_request")
       IN  IF f.panics THEN Exit(2) /\ UNCHANGED outs
           ELSE /\ outs' = AppendNonEmpty(outs, f.s, CsrFile(baseName, f.s))
                /\ pc' = "bundle"
                /\ UNCHANGED exitCode
    /\ UNCHANGED <<flags, fileData, baseName, stdoutOutput, input, next, files, stdout>>

\* input["result"].(map)["bundle"].(map), both with comma-ok
HasBundle(m) ==
    /\ Has(m, "result") /\ IsMap(Get(m, "result"))
    /\ Has(Get(m, "result").v, "bundle")
    /\ IsMap(Get(Get(m, "result").v, "bundle"))
InnerBundle(m) == Get(Get(m, "result").v, "bundle").v
\* bundle[k].(string) with comma-ok
StringOk(b, k) == Has(b, k) /\ IsString(Get(b, k))

\* mutant: the root is appended before the bundle
AppendBundleRootFirst(o, base, certificateBundle, rootCertificate) ==
    Append(Append(o, RootFile(base, rootCertificate)),
           BundleFile(base, certificateBundle, rootCertificate))
\* the two appends of the bundle step
AppendBundle(o, base, certificateBundle, rootCertificate) ==
    Append(Append(o, BundleFile(base, certificateBundle, rootCertificate)),
           RootFile(base, rootCertificate))

\* mutant: a bundle without its two strings is skipped, like an absent field
BundleSkipsMalformed ==
    /\ pc = "bundle"
    /\ exitCode = Running
    /\ IF HasBundle(input) /\ StringOk(InnerBundle(input), "bundle")
          /\ StringOk(InnerBundle(input), "root")
       THEN outs' = AppendBundle(outs, baseName, Get(InnerBundle(input), "bundle").v,
                                 Get(InnerBundle(input), "root").v)
       ELSE UNCHANGED outs
    /\ pc' = "ocsp"
    /\ UNCHANGED <<flags, fileData, baseName, stdoutOutput, input, next, files, stdout,
                   exitCode>>

Bundle ==
    /\ pc = "bundle"
    /\ exitCode = Running
    /\ IF HasBundle(input)
       THEN LET bundle == InnerBundle(input)
            IN  IF ~StringOk(bundle, "bundle") THEN Exit(1) /\ UNCHANGED outs
                ELSE IF ~StringOk(bundle, "root") THEN Exit(1) /\ UNCHANGED outs
                ELSE /\ outs' = AppendBundle(outs, baseName, Get(bundle, "bundle").v,
                                             Get(bundle, "root").v)
                     /\ pc' = "ocsp"
                     /\ UNCHANGED exitCode
       ELSE pc' = "ocsp" /\ UNCHANGED <<outs, exitCode>>
    /\ UNCHANGED <<flags, fileData, baseName, stdoutOutput, input, next, files, stdout>>

Ocsp ==
    /\ pc = "ocsp"
    /\ exitCode = Running
    /\ IF Has(input, "ocspResponse")
       THEN IF ~IsString(Get(input, "ocspResponse")) THEN Exit(2) /\ UNCHANGED outs
            ELSE LET d == DecodeString(Get(input, "ocspResponse").v)
                 IN  IF ~d.ok THEN Exit(1) /\ UNCHANGED outs
                     ELSE /\ outs' = Append(outs, ResponseFile(baseName, d.bytes))
                          /\ pc' = "sink"
                          /\ UNCHANGED exitCode
       ELSE pc' = "sink" /\ UNCHANGED <<outs, exitCode>>
    /\ UNCHANGED <<flags, fileData, baseName, stdoutOutput, input, next, files, stdout>>

\* ---------------------------------------------------------------- sink
\* mutant: binary contents are written as they are
EncodedRaw(f) == f.Contents
\* if outputFile.IsBinary { Contents = base64(Contents) }
Encoded(f) == IF f.IsBinary THEN EncodeToString(f.Contents) ELSE f.Contents

\* jsonOutputDict after the loop: the last element with a file name decides it
jsonOutputDict(o) ==
    [fn \in {o[k].Filename : k \in DOMAIN o} |->
        LET last == CHOOSE k \in DOMAIN o :
                      /\ o[k].Filename = fn
                      /\ \A j \in DOMAIN o : o[j].Filename = fn => j <= k
        IN  Encoded(o[last])]

\* json.Marshal + Fprintln: the JSON object written is the one the dict denotes
SinkJson ==
    /\ pc = "sink"
    /\ exitCode = Running
    /\ flags.json
    /\ stdout' = Append(stdout, [kind |-> "json", data |-> jsonOutputDict(outs)])
    /\ Exit(0)
    /\ UNCHANGED <<flags, fileData, baseName, stdoutOutput, input, outs, next, files>>

SinkStdout ==
    /\ pc = "sink"
    /\ exitCode = Running
    /\ ~flags.json
    /\ next <= Len(outs)
    /\ stdoutOutput
    /\ stdout' = Append(stdout, [kind |-> "text", data |-> Encoded(outs[next]) \o Newline])
    /\ next' = next + 1
    /\ UNCHANGED <<flags, fileData, pc, baseName, stdoutOutput, input, outs, files, exitCode>>

\* the file as ioutil.WriteFile leaves it
Written(f) == [Filename |-> f.Filename, Contents |-> f.Contents, Perms |-> f.Perms]

\* writeFile: ioutil.WriteFile succeeds, or fails and the run exits
SinkFile ==
    /\ pc = "sink"
    /\ exitCode = Running
    /\ ~flags.json
    /\ next <= Len(outs)
    /\ ~stdoutOutput
    /\ \/ /\ files' = Append(files, Written(outs[next]))
          /\ next' = next + 1
          /\ UNCHANGED <<pc, exitCode>>
       \/ /\ Exit(1)
          /\ UNCHANGED <<files, next>>
    /\ UNCHANGED <<flags, fileData, baseName, stdoutOutput, input, outs, stdout>>

\* the loop ends, writeOutput and main return
Return ==
    /\ pc = "sink"
    /\ exitCode = Running
    /\ ~flags.json
    /\ next > Len(outs)
    /\ Exit(0)
    /\ UNCHANGED <<flags, fileData, baseName, stdoutOutput, input, outs, next, files, stdout>>

Next ==
    \/ Main
    \/ Unwrap
    \/ Cert
    \/ Key
    \/ EncKey
    \/ Csr
    \/ Bundle
    \/ Ocsp
    \/ SinkJson
    \/ SinkStdout
    \/ SinkFile
    \/ Return

Spec == Init /\ [][Next]_vars

\* ---------------------------------------------------------------- properties
Steps == <<"main", "unwrap", "cert", "key", "enckey", "csr", "bundle", "ocsp", "sink">>
StepIndex(p) == CHOOSE k \in DOMAIN Steps : Steps[k] = p
\* the step named has run to its end without failing
Past(step) == StepIndex(pc) > StepIndex(step)
Ended  == exitCode # Running
Failed == exitCode # Running /\ exitCode # 0
NothingWritten == files = <<>> /\ stdout = <<>>
FileMode == ~flags.json /\ ~flags.stdout
\* the base name the command line asks for
Base == IF flags.args = <<>> THEN DefaultBaseName ELSE flags.args[1]
\* the artifacts of outs, and the files written, that carry a file name
Named(o, fn) == {k \in DOMAIN o : o[k].Filename = fn}

\* the envelope of the input has a result mapping
EnvelopeHasResult ==
    /\ fileData.kind = "object"
    /\ Has(fileData.top, "result")
    /\ Get(fileData.top, "result").t = "obj"
EnvelopeResult == Get(fileData.top, "result").v

\* C1: not bare, success false or absent: nothing is ever written, no
\* artifact is extracted, and the run stops in the unwrapping with exit status 1.
UnsuccessfulEnvelope ==
    /\ ~flags.bare
    /\ fileData.kind = "object"
    /\ \/ ~Has(fileData.top, "success")
       \/ Get(fileData.top, "success") = Bool(FALSE)
C1_NoArtifactWhenUnsuccessful ==
    UnsuccessfulEnvelope =>
        /\ NothingWritten
        /\ outs = <<>>
        /\ pc \in {"main", "unwrap"}
        /\ exitCode \in {Running, 1}
        /\ (pc = "unwrap" /\ ~Ended) => ENABLED Unwrap
C1_Witness ==
    /\ UnsuccessfulEnvelope
    /\ pc = "unwrap" /\ exitCode = 1
    /\ EnvelopeHasResult
    /\ Has(EnvelopeResult, "cert")
    /\ Get(EnvelopeResult, "cert") = Str(<<65>>)

\* C2 as stated: not bare, success true, result.cert a string (any string):
\* once the certificate step has run, an artifact <base>.pem with that
\* content and mode 0664 has been produced.
SuccessfulWithCert ==
    /\ ~flags.bare
    /\ EnvelopeHasResult
    /\ Has(fileData.top, "success")
    /\ Get(fileData.top, "success") = Bool(TRUE)
    /\ Has(EnvelopeResult, "cert")
    /\ Get(EnvelopeResult, "cert").t = "str"
CertString == Get(EnvelopeResult, "cert").v
IsCertArtifact(f) ==
    /\ f.Filename = Base \o SufPem
    /\ f.Contents = CertString
    /\ f.Perms = Perm0664
C2_Original ==
    (SuccessfulWithCert /\ Past("cert")) => \E k \in DOMAIN outs : IsCertArtifact(outs[k])

\* C2 amended: the same for every NON-EMPTY string: the artifact is the first
\* of the sequence and the only one of that name, and in file mode it is the
\* first file written when the run succeeds; for the empty string no
\* artifact <base>.pem is produced.
C2_CertArtifact ==
    (SuccessfulWithCert /\ Past("cert")) =>
        IF CertString # <<>>
        THEN /\ outs # <<>>
             /\ IsCertArtifact(outs[1])
             /\ Named(outs, Base \o SufPem) = {1}
             /\ (FileMode /\ exitCode = 0) =>
                    /\ files # <<>>
                    /\ IsCertArtifact(files[1])
                    /\ Named(files, Base \o SufPem) = {1}
        ELSE Named(outs, Base \o SufPem) = {}
C2_Witness ==
    /\ SuccessfulWithCert
    /\ CertString = <<77, 65, 77, 61>>
    /\ Cardinality(DOMAIN EnvelopeResult) = 2
    /\ FileMode /\ exitCode = 0
    /\ Len(files) = 2
    /\ IsCertArtifact(files[1])

\* C3: alias precedence.  For each of the three fields, when the unwrapped
\* mapping holds both the primary name and its alias, every artifact of that
\* field (in the sequence, in a file, on standard output) carries the primary
\* value, which is then a non-empty string; when the primary value is the
\* empty string there is no artifact of that field; a non-empty primary string
\* does give the artifact once the step has run.
AliasPairs ==
    {[primary |-> "cert", alias |-> "certificate", step |-> "cert", suffix |-> SufPem],
     [primary |-> "key", alias |-> "private_key", step |-> "key", suffix |-> SufKeyPem],
     [primary |-> "csr", alias |-> "certificate_request", step |-> "csr", suffix |-> SufCsr]}
BothPresent(a) == Has(input, a.primary) /\ Has(input, a.alias)
CarriesPrimary(a, f) ==
    /\ Get(input, a.primary).t = "str"
    /\ Get(input, a.primary).v # <<>>
    /\ f.Contents = Get(input, a.primary).v
C3_AliasPrecedence ==
    \A a \in AliasPairs :
        BothPresent(a) =>
            /\ \A k \in Named(outs, Base \o a.suffix) : CarriesPrimary(a, outs[k])
            /\ \A k \in Named(files, Base \o a.suffix) : CarriesPrimary(a, files[k])
            /\ (Get(input, a.primary).t = "str" /\ Get(input, a.primary).v # <<>>
                  /\ Past(a.step)) => Named(outs, Base \o a.suffix) # {}
            /\ (flags.stdout /\ ~flags.json) =>
                  \A k \in Named(outs, Base \o a.suffix) :
                      k <= Len(stdout) =>
                          stdout[k].data = Get(input, a.primary).v \o Newline
            /\ (flags.json /\ stdout # <<>>) =>
                  \A fn \in DOMAIN stdout[1].data \cap {Base \o a.suffix} :
                      stdout[1].data[fn] = Get(input, a.primary).v
\* both present with different non-empty values, and the file is written
C3_Witness ==
    /\ Has(input, "key") /\ Has(input, "private_key")
    /\ Get(input, "key") = Str(<<65>>)
    /\ Get(input, "private_key") = Str(<<77, 65, 77, 61>>)
    /\ exitCode = 0
    /\ Len(files) = 1
    /\ files[1].Contents = <<65>>

\* C4: bundle completeness.  The unwrapped mapping has result.bundle as a
\* mapping that lacks a string bundle or a string root: nothing is ever
\* written to a file or to standard output, the sink is never reached, and
\* the run cannot end with status 0.
MalformedBundle ==
    /\ Has(input, "result")
    /\ Get(input, "result").t = "obj"
    /\ Has(Get(input, "result").v, "bundle")
    /\ Get(Get(input, "result").v, "bundle").t = "obj"
    /\ LET b == Get(Get(input, "result").v, "bundle").v
       IN  \/ ~Has(b, "bundle")
           \/ Get(b, "bundle").t # "str"
           \/ ~Has(b, "root")
           \/ Get(b, "root").t # "str"
C4_BundleCompleteness ==
    MalformedBundle =>
        /\ NothingWritten
        /\ pc \notin {"ocsp", "sink"}
        /\ exitCode # 0
        /\ (pc = "bundle" /\ Ended) => exitCode = 1
        /\ ~Ended => ENABLED Next
\* a key was extracted before the bundle step failed
C4_Witness ==
    /\ MalformedBundle
    /\ pc = "bundle" /\ exitCode = 1
    /\ Len(outs) = 1
    /\ outs[1].Filename = Base \o SufKeyPem
    /\ Has(Get(Get(input, "result").v, "bundle").v, "bundle")
    /\ ~Has(Get(Get(input, "result").v, "bundle").v, "root")

\* the fixed field order, as file-name suffixes
FieldOrder == <<SufPem, SufKeyPem, SufKeyEnc, SufCsr, SufBundlePem, SufRootPem,
                SufResponseDer>>
IsRank(fn, r) == fn = Base \o FieldOrder[r]
Rank(fn) == CHOOSE r \in DOMAIN FieldOrder : IsRank(fn, r)
\* the file names of o are known ones, in strictly increasing field order
InFieldOrder(o) ==
    /\ \A k \in DOMAIN o : \E r \in DOMAIN FieldOrder : IsRank(o[k].Filename, r)
    /\ \A j, k \in DOMAIN o : j < k => Rank(o[j].Filename) < Rank(o[k].Filename)
\* what the k-th artifact looks like on standard output without JSON
Line(f) == (IF f.IsBinary THEN EncodeToString(f.Contents) ELSE f.Contents) \o Newline

\* C5: the artifacts extracted are in the fixed field order; the files written
\* are, one for one and in the same order, the first artifacts of that
\* sequence, the lines written to standard output likewise; a run that ends
\* with status 0 has emitted all of them.
C5_FixedOrder ==
    /\ InFieldOrder(outs)
    /\ InFieldOrder(files)
    /\ ~flags.json =>
          /\ Len(files) + Len(stdout) = next - 1
          /\ next - 1 <= Len(outs)
          /\ \A k \in DOMAIN files :
                /\ files[k].Filename = outs[k].Filename
                /\ files[k].Contents = outs[k].Contents
          /\ \A k \in DOMAIN stdout :
                stdout[k] = [kind |-> "text", data |-> Line(outs[k])]
          /\ exitCode = 0 => next - 1 = Len(outs)
          /\ flags.stdout => files = <<>>
          /\ ~flags.stdout => stdout = <<>>
\* three files written in order: a key, then the bundle and the root
C5_Witness ==
    /\ FileMode /\ exitCode = 0
    /\ Len(files) = 3
    /\ files[1].Filename = Base \o SufKeyEnc
    /\ files[2].Filename = Base \o SufBundlePem
    /\ files[3].Filename = Base \o SufRootPem

\* C6: with the JSON flag set, whatever the stdout flag: no file is ever
\* written; standard output holds nothing until the run succeeds and then
\* exactly one JSON object, with exactly one entry per artifact extracted (the
\* file names are pairwise distinct), whose value is the content for a text
\* artifact and its base64 encoding (which decodes back to the content) for a
\* binary one.
C6_JsonMode ==
    flags.json =>
        /\ files = <<>>
        /\ \A j, k \in DOMAIN outs : outs[j].Filename = outs[k].Filename => j = k
        /\ exitCode # 0 => stdout = <<>>
        /\ exitCode = 0 =>
              /\ Len(stdout) = 1
              /\ stdout[1].kind = "json"
              /\ DOMAIN stdout[1].data = {outs[k].Filename : k \in DOMAIN outs}
              /\ Cardinality(DOMAIN stdout[1].data) = Len(outs)
              /\ \A k \in DOMAIN outs :
                    LET e == stdout[1].data[outs[k].Filename]
                    IN  IF outs[k].IsBinary
                        THEN /\ e = EncodeToString(outs[k].Contents)
                             /\ DecodeString(e) = [ok |-> TRUE, bytes |-> outs[k].Contents]
                        ELSE e = outs[k].Contents
\* the stdout flag is not set; a text and a binary artifact: ocspResponse
\* "MAM=" (the bytes 30 03) is written as "MAM="
C6_Witness ==
    /\ flags.json /\ ~flags.stdout
    /\ exitCode = 0
    /\ Len(outs) = 2
    /\ ~outs[1].IsBinary
    /\ outs[2].Contents = <<48, 3>>
    /\ outs[2].IsBinary
    /\ stdout[1].data[Base \o SufResponseDer] = <<77, 65, 77, 61>>
    /\ stdout[1].data[Base \o SufPem] = <<65>>

\* C7 as stated: a run that ends in failure has written nothing.
C7_Original == Failed => NothingWritten

\* C7 amended: every error is terminal (a run that has ended does nothing
\* more, and a run that ends with status 0 had no unreadable or unparsable
\* input, no unsuccessful envelope, no malformed bundle and no undecodable
\* ocspResponse); nothing is written before the sink is reached and nothing is
\* ever written to standard output by a run that fails; but a run that fails
\* on a file write leaves the files written before it: they are the first
\* artifacts, in order, and not all of them.
Base64Shaped(s) ==
    LET t == StripNewlines(s)
    IN  /\ Len(t) % 4 = 0
        /\ \A k \in DOMAIN t : DecodeChar(t[k]) >= 0 \/ t[k] = PadChar
C7_TerminalErrors ==
    /\ Ended => ~ENABLED Next
    /\ pc # "sink" => NothingWritten
    /\ Failed =>
          /\ stdout = <<>>
          /\ files # <<>> =>
                /\ FileMode
                /\ pc = "sink"
                /\ Len(files) < Len(outs)
                /\ \A k \in DOMAIN files :
                      /\ files[k].Filename = outs[k].Filename
                      /\ files[k].Contents = outs[k].Contents
    /\ exitCode = 0 =>
          /\ fileData.kind = "object"
          /\ ~flags.bare =>
                /\ Has(fileData.top, "success")
                /\ Get(fileData.top, "success") = Bool(TRUE)
          /\ ~MalformedBundle
          /\ Has(input, "ocspResponse") =>
                /\ Get(input, "ocspResponse").t = "str"
                /\ Base64Shaped(Get(input, "ocspResponse").v)
\* the second file write fails after the first file was written
C7_Witness ==
    /\ Failed
    /\ pc = "sink"
    /\ FileMode
    /\ Len(outs) = 2
    /\ Len(files) = 1
    /\ files[1].Filename = Base \o SufPem

\* C8: every file written (and every artifact extracted) has one of the seven
\* names; <base>-key.pem and <base>-key.enc have mode 0600 and hold the value
\* of key/private_key and of encrypted_key; <base>.pem has mode 0664; the
\* four others have mode 0644; and every file whose mode is not 0600 holds
\* what its own field gives (cert, csr, result.bundle, ocspResponse), never a
\* value taken from key, private_key or encrypted_key.
Consulted(primary, alias) ==
    IF Has(input, primary) THEN Get(input, primary).v ELSE Get(input, alias).v
BundleOf(k) == Get(Get(Get(input, "result").v, "bundle").v, k).v
PermsRight(f) ==
    /\ \E r \in DOMAIN FieldOrder : IsRank(f.Filename, r)
    /\ f.Filename \in {Base \o SufKeyPem, Base \o SufKeyEnc} => f.Perms = Perm0600
    /\ f.Filename = Base \o SufPem => f.Perms = Perm0664
    /\ f.Filename \in {Base \o SufCsr, Base \o SufBundlePem, Base \o SufRootPem,
                       Base \o SufResponseDer} => f.Perms = Perm0644
OwnContent(f) ==
    /\ f.Filename = Base \o SufKeyPem => f.Contents = Consulted("key", "private_key")
    /\ f.Filename = Base \o SufKeyEnc => f.Contents = Get(input, "encrypted_key").v
    /\ f.Filename = Base \o SufPem => f.Contents = Consulted("cert", "certificate")
    /\ f.Filename = Base \o SufCsr => f.Contents = Consulted("csr", "certificate_request")
    /\ f.Filename = Base \o SufBundlePem =>
          f.Contents = BundleOf("bundle") \o Newline \o BundleOf("root")
    /\ f.Filename = Base \o SufRootPem => f.Contents = BundleOf("root")
    /\ f.Filename = Base \o SufResponseDer =>
          DecodeString(Get(input, "ocspResponse").v) = [ok |-> TRUE, bytes |-> f.Contents]
C8_KeyPermissions ==
    /\ \A k \in DOMAIN files : PermsRight(files[k]) /\ OwnContent(files[k])
    /\ \A k \in DOMAIN outs : PermsRight(outs[k]) /\ OwnContent(outs[k])
    /\ \A k \in DOMAIN files :
          files[k].Perms # Perm0600 =>
              files[k].Filename \notin {Base \o SufKeyPem, Base \o SufKeyEnc}
\* mycert.pem (0664) and mycert-key.pem (0600), nothing else
C8_Witness ==
    /\ exitCode = 0
    /\ flags.args # <<>>
    /\ Len(files) = 2
    /\ files[1] = [Filename |-> Base \o SufPem, Contents |-> <<77, 65, 77, 61>>,
                   Perms |-> Perm0664]
    /\ files[2] = [Filename |-> Base \o SufKeyPem, Contents |-> <<65>>,
                   Perms |-> Perm0600]

\* the sibling steps of the bundle step, with the names each consults
Siblings ==
    {[step |-> "cert", primary |-> "cert", alias |-> "certificate"],
     [step |-> "key", primary |-> "key", alias |-> "private_key"],
     [step |-> "enckey", primary |-> "encrypted_key", alias |-> "encrypted_key"],
     [step |-> "csr", primary |-> "csr", alias |-> "certificate_request"],
     [step |-> "ocsp", primary |-> "ocspResponse", alias |-> "ocspResponse"]}
FieldPresent(b) == Has(input, b.primary) \/ Has(input, b.alias)
\* the value the step reads: the primary's if present, else the alias's
FieldValue(b) ==
    IF Has(input, b.primary) THEN Get(input, b.primary) ELSE Get(input, b.alias)

\* C9 as stated: no run fails in a sibling step of the bundle step.
C9_Original == \A b \in Siblings : ~(Failed /\ pc = b.step)

\* C9 amended: a sibling step never fails on an absent field nor on a string
\* (the empty one included), except that the ocspResponse step fails, with
\* status 1, on a string that is not valid base64; every sibling step fails,
\* with a runtime type error (status 2), on a present value that is not a
\* string.  A step that does not fail leaves the run going to the next step.
C9_SiblingFailures ==
    /\ \A b \in Siblings :
          /\ (Failed /\ pc = b.step) =>
                /\ FieldPresent(b)
                /\ \/ FieldValue(b).t # "str" /\ exitCode = 2
                   \/ /\ b.step = "ocsp"
                      /\ FieldValue(b).t = "str"
                      /\ ~DecodeString(FieldValue(b).v).ok
                      /\ exitCode = 1
          /\ Past(b.step) =>
                \/ ~FieldPresent(b)
                \/ /\ FieldValue(b).t = "str"
                   /\ b.step = "ocsp" => DecodeString(FieldValue(b).v).ok
    /\ DecodeString(<<>>).ok
    /\ ~DecodeString(<<65>>).ok
    /\ ~Ended => ENABLED Next
\* the certificate is a number: the run has failed in the certificate step
C9_Witness ==
    /\ pc = "cert" /\ exitCode = 2
    /\ Has(input, "cert")
    /\ Get(input, "cert") = Num
    /\ Has(input, "key")

\* C10: once the encrypted-key step has run on a string value of
\* encrypted_key, empty or not, exactly one artifact <base>-key.enc, binary,
\* holds that value; a run that succeeds emits it (a file with that content,
\* a line with its base64 text, a JSON entry with its base64 text; for the
\* empty string an empty file, an empty line, an empty entry).  No artifact
\* <base>.pem, <base>-key.pem or <base>.csr is ever empty, and there is none
\* when the value its step reads is the empty string.
HasEncKeyString ==
    /\ Has(input, "encrypted_key")
    /\ Get(input, "encrypted_key").t = "str"
EncKeyString == Get(input, "encrypted_key").v
C10_EmptinessAsymmetry ==
    /\ (HasEncKeyString /\ Past("enckey")) =>
          /\ Cardinality(Named(outs, Base \o SufKeyEnc)) = 1
          /\ \A k \in Named(outs, Base \o SufKeyEnc) :
                /\ outs[k].Contents = EncKeyString
                /\ outs[k].IsBinary
                /\ exitCode = 0 =>
                      /\ FileMode => /\ files[k].Filename = Base \o SufKeyEnc
                                     /\ files[k].Contents = EncKeyString
                      /\ (flags.stdout /\ ~flags.json) =>
                            /\ stdout[k].data = EncodeToString(EncKeyString) \o Newline
                            /\ EncKeyString = <<>> => stdout[k].data = Newline
                      /\ flags.json =>
                            /\ stdout[1].data[Base \o SufKeyEnc]
                                  = EncodeToString(EncKeyString)
                            /\ EncKeyString = <<>> =>
                                  stdout[1].data[Base \o SufKeyEnc] = <<>>
    /\ \A a \in AliasPairs :
          /\ \A k \in Named(outs, Base \o a.suffix) : outs[k].Contents # <<>>
          /\ (Past(a.step) /\ (Has(input, a.primary) \/ Has(input, a.alias))
                /\ Consulted(a.primary, a.alias) = <<>>) =>
                Named(outs, Base \o a.suffix) = {}
\* encrypted_key and cert are both the empty string: one empty file, the key
C10_Witness ==
    /\ HasEncKeyString /\ EncKeyString = <<>>
    /\ Has(input, "cert") /\ Get(input, "cert") = Str(<<>>)
    /\ FileMode /\ exitCode = 0
    /\ Len(files) = 1
    /\ files[1].Filename = Base \o SufKeyEnc
    /\ files[1].Contents = <<>>
====
